---- MODULE Spec2Model ----
(***************************************************************************)
(* Model of scripts/setup_tactical_puzzles.py: the one-time setup script   *)
(* that fetches the Lichess puzzle database, extracts puzzles per tactical *)
(* pattern, converts them to fixtures, writes one fixture file per pattern *)
(* and finally writes the setup marker.                                    *)
(*                                                                         *)
(* Text columns of the CSV (Themes, Moves) are sequences of tokens in      *)
(* which SP stands for a run of whitespace; str.split() is Split.          *)
(* The chess rules library is abstracted by the kind of each UCI token:    *)
(* a legal move, a malformed encoding (Move.from_uci raises), or a move    *)
(* from an empty square (Board.push and Board.san raise).                  *)
(***************************************************************************)
EXTENDS Integers, Sequences, FiniteSets, TLC

\* ------------------------------------------------------------------ bounds
\* longest puzzle table of the orchestrator specification
MaxRows == 3
\* largest --max-puzzles value
MaxLimit == 2
\* number of times the script is started
MaxRuns == 2
\* longest puzzle table of the extractor specification
MaxTableLen == 3
\* longest raw move list of the converter specification
MaxMoves == 3

\* ------------------------------------------------------- program constants
MIN_POPULARITY == 50
MIN_RATING == 800
MAX_RATING == 2200
MIN_PLAYS == 50

\* The patterns in the iteration order of the PATTERN_THEMES dict.
Patterns ==
  << "pin", "fork", "skewer", "discovered_check", "double_attack",
     "overloading", "back_rank_weakness", "trapped_piece" >>

PATTERN_THEMES ==
  [ pin                |-> <<"pin">>,
    fork               |-> <<"fork">>,
    skewer             |-> <<"skewer">>,
    discovered_check   |-> <<"discoveredAttack">>,
    double_attack      |-> <<"doubleCheck", "fork">>,
    overloading        |-> <<"overloading">>,
    back_rank_weakness |-> <<"backRankMate">>,
    trapped_piece      |-> <<"trappedPiece">> ]

NumPatterns == Len(Patterns)

\* --------------------------------------------------------- generic helpers
SP == " "

Range(s) == { s[i] : i \in 1..Len(s) }

Min(a, b) == IF a <= b THEN a ELSE b

Max(a, b) == IF a >= b THEN a ELSE b

\* str.split(): the words of a text column, whitespace runs dropped
Split(s) == SelectSeq(s, LAMBDA t : t # SP)

\* list[:n] of Python, for any integer n
Slice(s, n) ==
  IF n >= 0 THEN SubSeq(s, 1, Min(n, Len(s)))
            ELSE SubSeq(s, 1, Max(Len(s) + n, 0))

\* ------------------------------------------------- extract_puzzles_for_pattern
\* Matches without the play-count test
Matches_NoPlays(row, themes) ==
  /\ \E i \in 1..Len(themes) : themes[i] \in Range(Split(row.Themes))
  /\ row.Popularity >= MIN_POPULARITY
  /\ MIN_RATING <= row.Rating /\ row.Rating <= MAX_RATING

\* the filter of one row, after its numeric columns parsed
Matches(row, themes) ==
  /\ \E i \in 1..Len(themes) : themes[i] \in Range(Split(row.Themes))
  /\ row.Popularity >= MIN_POPULARITY
  /\ MIN_RATING <= row.Rating /\ row.Rating <= MAX_RATING
  /\ row.NbPlays >= MIN_PLAYS

\* ScanRows without the early break: every matching row is collected
RECURSIVE ScanRows_NoBreak(_, _, _, _, _)
ScanRows_NoBreak(tbl, themes, max_puzzles, i, puzzles) ==
  IF i > Len(tbl) THEN [raised |-> FALSE, puzzles |-> puzzles]
  ELSE IF ~tbl[i].Numeric THEN [raised |-> TRUE, puzzles |-> puzzles]
  ELSE ScanRows_NoBreak(tbl, themes, max_puzzles, i + 1,
         IF Matches(tbl[i], themes) THEN Append(puzzles, tbl[i]) ELSE puzzles)

\* the scan of the rows from row i on, with the early break; int() raises on
\* a row whose numeric columns do not parse, whether or not the row matches
RECURSIVE ScanRows(_, _, _, _, _)
ScanRows(tbl, themes, max_puzzles, i, puzzles) ==
  IF i > Len(tbl) THEN [raised |-> FALSE, puzzles |-> puzzles]
  ELSE IF ~tbl[i].Numeric THEN [raised |-> TRUE, puzzles |-> puzzles]
  ELSE IF Matches(tbl[i], themes)
    THEN LET got == Append(puzzles, tbl[i])
         IN  IF Len(got) >= max_puzzles
               THEN [raised |-> FALSE, puzzles |-> got]
               ELSE ScanRows(tbl, themes, max_puzzles, i + 1, got)
    ELSE ScanRows(tbl, themes, max_puzzles, i + 1, puzzles)

\* insertion of row r behind every row that is at least as popular (stable)
RECURSIVE InsertByPopularity(_, _)
InsertByPopularity(sorted, r) ==
  IF sorted = << >> THEN << r >>
  ELSE IF Head(sorted).Popularity >= r.Popularity
    THEN << Head(sorted) >> \o InsertByPopularity(Tail(sorted), r)
    ELSE << r >> \o sorted

\* list.sort(key=popularity, reverse=True): stable, most popular first
RECURSIVE SortByPopularity(_)
SortByPopularity(s) ==
  IF s = << >> THEN << >>
  ELSE InsertByPopularity(SortByPopularity(SubSeq(s, 1, Len(s) - 1)), s[Len(s)])

\* extract_puzzles_for_pattern without the final puzzles[:max_puzzles]
extract_puzzles_NoSlice(tbl, themes, max_puzzles) ==
  LET scan == ScanRows(tbl, themes, max_puzzles, 1, << >>)
  IN  [ raised  |-> scan.raised,
        puzzles |-> IF scan.raised THEN << >>
                    ELSE SortByPopularity(scan.puzzles) ]

extract_puzzles_for_pattern(tbl, themes, max_puzzles) ==
  LET scan == ScanRows(tbl, themes, max_puzzles, 1, << >>)
  IN  [ raised  |-> scan.raised,
        puzzles |-> IF scan.raised THEN << >>
                    ELSE Slice(SortByPopularity(scan.puzzles), max_puzzles) ]

\* ---------------------------------------------------------- lichess_to_fixture
LegalMoves == { "e2e4", "e7e5", "g1f3" }
MalformedMoves == { "zz" }
EmptySquareMoves == { "a3a4" }
MoveTokens == LegalMoves \cup MalformedMoves \cup EmptySquareMoves

ValidFens == { "w", "b" }
InvalidFens == { "??" }

\* chess.Move.from_uci(m) returns
FromUciOk(m) == m \notin MalformedMoves

\* board.push(m) and board.san(m) return: a piece stands on the from-square
OnBoardOk(m) == m \notin EmptySquareMoves

Flip(side) == IF side = "w" THEN "b" ELSE "w"

\* board.fen() after the moves `pushed` were played from position `fen`
BoardFen(fen, pushed) ==
  [ side   |-> IF Len(pushed) % 2 = 0 THEN fen ELSE Flip(fen),
    played |-> pushed ]

\* board.san(m) in the position reached by `pushed`
San(fen, pushed, m) == << "san", Len(pushed), m >>

\* Replay with the parity of the player tag inverted
RECURSIVE Replay_EvenIsPlayer(_, _, _, _)
Replay_EvenIsPlayer(fen, moves_uci, i, move_sequence) ==
  IF i >= Len(moves_uci) THEN [raised |-> FALSE, moves |-> move_sequence]
  ELSE LET move_uci == moves_uci[i + 1]
       IN  IF ~FromUciOk(move_uci) \/ ~OnBoardOk(move_uci)
             THEN [raised |-> TRUE, moves |-> move_sequence]
             ELSE Replay_EvenIsPlayer(fen, moves_uci, i + 1,
                    Append(move_sequence,
                      [ uci    |-> move_uci,
                        san    |-> San(fen, SubSeq(moves_uci, 1, i), move_uci),
                        player |-> (i % 2 = 0) ]))

\* the replay loop over moves_uci[1:], from index i (0-based, as enumerate
\* counts it); raises at the first move that does not decode or has no piece
RECURSIVE Replay(_, _, _, _)
Replay(fen, moves_uci, i, move_sequence) ==
  IF i >= Len(moves_uci) THEN [raised |-> FALSE, moves |-> move_sequence]
  ELSE LET move_uci == moves_uci[i + 1]
       IN  IF ~FromUciOk(move_uci) \/ ~OnBoardOk(move_uci)
             THEN [raised |-> TRUE, moves |-> move_sequence]
             ELSE Replay(fen, moves_uci, i + 1,
                    Append(move_sequence,
                      [ uci    |-> move_uci,
                        san    |-> San(fen, SubSeq(moves_uci, 1, i), move_uci),
                        player |-> (i % 2 = 1) ]))

NoFixture == [ id |-> 0 ]

\* pattern_type.upper()
Upper ==
  [ pin                |-> "PIN",
    fork               |-> "FORK",
    skewer             |-> "SKEWER",
    discovered_check   |-> "DISCOVERED_CHECK",
    double_attack      |-> "DOUBLE_ATTACK",
    overloading        |-> "OVERLOADING",
    back_rank_weakness |-> "BACK_RANK_WEAKNESS",
    trapped_piece      |-> "TRAPPED_PIECE" ]

lichess_to_fixture(puzzle_row, pattern_type) ==
  LET fen       == puzzle_row.FEN
      moves_uci == Split(puzzle_row.Moves)
  IN  IF fen \in InvalidFens THEN [raised |-> TRUE, fixture |-> NoFixture]
      ELSE IF Len(moves_uci) = 0 THEN [raised |-> TRUE, fixture |-> NoFixture]
      ELSE IF ~FromUciOk(moves_uci[1]) \/ ~OnBoardOk(moves_uci[1])
        THEN [raised |-> TRUE, fixture |-> NoFixture]
      ELSE LET initial_fen == BoardFen(fen, SubSeq(moves_uci, 1, 1))
               replay      == Replay(fen, moves_uci, 1, << >>)
           IN  IF replay.raised THEN [raised |-> TRUE, fixture |-> NoFixture]
               ELSE IF Len(moves_uci) < 2
                 THEN [raised |-> TRUE, fixture |-> NoFixture]
               ELSE [ raised  |-> FALSE,
                      fixture |->
                        [ id           |-> puzzle_row.PuzzleId,
                          initialFen   |-> initial_fen,
                          sideToMove   |-> IF initial_fen.side = "w"
                                             THEN "white" ELSE "black",
                          rating       |-> puzzle_row.Rating,
                          bestMove     |->
                            [ san |-> San(fen, SubSeq(moves_uci, 1, 1), moves_uci[2]),
                              uci |-> moves_uci[2] ],
                          moves        |-> replay.moves,
                          resultingFen |-> BoardFen(fen, moves_uci),
                          expectedPattern |-> [ type |-> Upper[pattern_type] ],
                          context      |-> << "Lichess puzzle", puzzle_row.PuzzleId,
                                              puzzle_row.Rating, puzzle_row.Popularity >>,
                          tags         |-> Split(puzzle_row.Themes) ] ]

\* ------------------------------------------------------------- the inputs
\* a text column holding the given words, one blank between them
RECURSIVE Join(_)
Join(words) ==
  IF Len(words) <= 1 THEN words
  ELSE << Head(words), SP >> \o Join(Tail(words))

\* one CSV row without its PuzzleId; Numeric is whether int() accepts the
\* Rating, Popularity and NbPlays columns
Row(themes, rating, popularity, plays, moves, fen, numeric) ==
  [ Themes |-> themes, Rating |-> rating, Popularity |-> popularity,
    NbPlays |-> plays, Moves |-> moves, FEN |-> fen, Numeric |-> numeric ]

\* the rows of a table get the PuzzleIds 1, 2, ... in file order
WithIds(rows) ==
  [ i \in 1..Len(rows) |->
      [ PuzzleId |-> i, Themes |-> rows[i].Themes, Rating |-> rows[i].Rating,
        Popularity |-> rows[i].Popularity, NbPlays |-> rows[i].NbPlays,
        Moves |-> rows[i].Moves, FEN |-> rows[i].FEN,
        Numeric |-> rows[i].Numeric ] ]

SeqsUpTo(S, n) == UNION { [1..k -> S] : k \in 0..n }

GoodMoves == Join(<< "e2e4", "e7e5", "g1f3" >>)

\* rows of the orchestrator specification
MainRows ==
  { Row(<< "fork", SP, "middlegame" >>, 1500, 90, 100, GoodMoves, "w", TRUE),
    Row(<< "fork" >>, 1800, 95, 400, Join(<< "e2e4", "zz" >>), "w", TRUE),
    Row(<< "pin", SP, "short" >>, 900, 60, 50, Join(<< "e7e5", "g1f3" >>), "b", TRUE),
    Row(<< "fork" >>, 1500, 49, 100, GoodMoves, "w", TRUE),
    Row(<< "pin" >>, 0, 0, 0, GoodMoves, "w", FALSE) }

MainTables == { WithIds(rows) : rows \in SeqsUpTo(MainRows, MaxRows) }

\* rows of the extractor specification: each threshold from both sides
ExtractRows ==
  { Row(<< "fork" >>, 1500, 90, 100, GoodMoves, "w", TRUE),
    Row(<< "fork" >>, 1500, 49, 100, GoodMoves, "w", TRUE),
    Row(<< "fork" >>, 1500, 50, 100, GoodMoves, "w", TRUE),
    Row(<< "fork" >>, 799, 90, 100, GoodMoves, "w", TRUE),
    Row(<< "pin" >>, 800, 80, 100, GoodMoves, "w", TRUE),
    Row(<< "pin" >>, 2200, 85, 100, GoodMoves, "w", TRUE),
    Row(<< "pin" >>, 2201, 90, 100, GoodMoves, "w", TRUE),
    Row(<< "fork" >>, 1500, 90, 49, GoodMoves, "w", TRUE),
    Row(<< "mate", SP, "short" >>, 1500, 99, 100, GoodMoves, "w", TRUE),
    Row(<< SP, "doubleCheck", SP, "pin", SP >>, 1500, 70, 50, GoodMoves, "w", TRUE),
    Row(<< "fork" >>, 0, 0, 0, GoodMoves, "w", FALSE) }

ExtractTables == { WithIds(rows) : rows \in SeqsUpTo(ExtractRows, MaxTableLen) }

\* rows of the converter specification: every move list up to MaxMoves
ConvertRows ==
  { [ PuzzleId |-> 1, Themes |-> << "fork" >>, Rating |-> 1500,
      Popularity |-> 90, NbPlays |-> 100, Moves |-> Join(ms), FEN |-> fen,
      Numeric |-> TRUE ] :
    ms \in SeqsUpTo(MoveTokens, MaxMoves), fen \in ValidFens \cup InvalidFens }

\* --------------------------------------------------------------- the state
VARIABLES
  table,           \* the rows of lichess_db_puzzle.csv
  run,             \* how many times the script was started
  args,            \* the parsed command line of the current run
  pc,              \* where the current run stands
  cat,             \* position of the pattern loop in Patterns
  puzzles,         \* main's `puzzles`
  fixtures,        \* main's `fixtures`
  total_puzzles,   \* main's `total_puzzles`
  files,           \* FIXTURES_DIR: pattern -> file content, or NoFile
  marker,          \* SETUP_MARKER: 0 if absent, else the run that wrote it
  zstd,            \* whether the zstd tool is installed
  compressed,      \* whether downloads/lichess_db_puzzle.csv.zst exists
  decompressed,    \* whether downloads/lichess_db_puzzle.csv exists
  downloads,       \* urlretrieve calls made so far
  decompressions,  \* zstd -d calls made so far
  log              \* what the current run printed: steps, warnings, skips

vars ==
  << table, run, args, pc, cat, puzzles, fixtures, total_puzzles, files,
     marker, zstd, compressed, decompressed, downloads, decompressions, log >>

NoFile == [ run |-> 0, cases |-> << >> ]

PatternSet == Range(Patterns)

NoArgs == [ force |-> FALSE, max_puzzles |-> 0 ]

\* a fresh checkout: nothing downloaded, no fixture written, no marker
InitFiles ==
  /\ files = [ p \in PatternSet |-> NoFile ]
  /\ marker = 0
  /\ compressed = FALSE
  /\ decompressed = FALSE
  /\ downloads = 0
  /\ decompressions = 0

InitLocals ==
  /\ cat = 1
  /\ puzzles = << >>
  /\ fixtures = << >>
  /\ total_puzzles = 0
  /\ log = << >>

Init ==
  /\ table \in MainTables
  /\ zstd \in BOOLEAN
  /\ run = 0
  /\ args = NoArgs
  /\ pc = "idle"
  /\ InitLocals
  /\ InitFiles

\* ---------------------------------------------------------------- printing
Entry(kind, pattern, id) == [ kind |-> kind, pattern |-> pattern, id |-> id ]

StepLine(name) == Entry("step", name, 0)

WarnLine(pattern) == Entry("warning", pattern, 0)

SkipLine(pattern, id) == Entry("skip", pattern, id)

PromptLine == Entry("prompt", "", 0)

\* ------------------------------------------------------------- main, start
Responses == { "y", "Y", " y ", "n", "" }

\* input(...).strip().lower()
StripLower(response) == IF response \in { "y", "Y", " y " } THEN "y" ELSE response

Ended == { "idle", "done", "declined", "failed" }

\* the script is started: argument parsing and the marker test of line 320
StartRun(force, max_puzzles) ==
  /\ pc \in Ended
  /\ run < MaxRuns
  /\ run' = run + 1
  /\ args' = [ force |-> force, max_puzzles |-> max_puzzles ]
  /\ cat' = 1
  /\ puzzles' = << >>
  /\ fixtures' = << >>
  /\ total_puzzles' = 0
  /\ IF marker # 0 /\ ~force
       THEN pc' = "prompt" /\ log' = << PromptLine >>
       ELSE pc' = "deps" /\ log' = << >>
  /\ UNCHANGED << table, files, marker, zstd, compressed, decompressed,
                  downloads, decompressions >>

\* the answer to "Do you want to re-run the setup? (y/N)"
Prompt(response) ==
  /\ pc = "prompt"
  /\ IF StripLower(response) # "y"
       THEN pc' = "declined" /\ marker' = marker
       ELSE pc' = "deps" /\ marker' = 0
  /\ UNCHANGED << table, run, args, cat, puzzles, fixtures, total_puzzles,
                  files, zstd, compressed, decompressed, downloads,
                  decompressions, log >>

\* Step 1: check_zstd_installed, and install_zstd when it is missing; the
\* installation succeeds or exits the process
CheckDependencies ==
  /\ pc = "deps"
  /\ log' = Append(log, StepLine("deps"))
  /\ IF zstd
       THEN pc' = "fetch" /\ zstd' = zstd
       ELSE \E installed \in BOOLEAN :
              /\ zstd' = installed
              /\ pc' = IF installed THEN "fetch" ELSE "failed"
  /\ UNCHANGED << table, run, args, cat, puzzles, fixtures, total_puzzles,
                  files, marker, compressed, decompressed, downloads,
                  decompressions >>

\* the fetcher without the test of line 113: it always fetches
download_puzzle_database_Always ==
  /\ pc = "fetch"
  /\ log' = Append(log, StepLine("fetch"))
  /\ \E dl_ok, kept, z_ok, written \in BOOLEAN :
       /\ downloads' = IF compressed THEN downloads ELSE downloads + 1
       /\ IF ~compressed /\ ~dl_ok
            THEN /\ compressed' = kept
                 /\ UNCHANGED << decompressed, decompressions >>
                 /\ pc' = "failed"
            ELSE /\ compressed' = TRUE
                 /\ decompressions' = decompressions + 1
                 /\ decompressed' = IF z_ok THEN TRUE ELSE written
                 /\ pc' = IF z_ok THEN "extract" ELSE "failed"
  /\ UNCHANGED << table, run, args, cat, puzzles, fixtures, total_puzzles,
                  files, marker, zstd >>

\* Step 2: the database fetcher.  dl_ok and z_ok are whether urlretrieve and
\* zstd -d succeed; kept and written are whether a failed download or a
\* failed decompression leaves its (partial) output file behind.  The rows a
\* later step reads from the decompressed file are those of `table`.
download_puzzle_database ==
  /\ pc = "fetch"
  /\ log' = Append(log, StepLine("fetch"))
  /\ IF decompressed
       THEN /\ pc' = "extract"
            /\ UNCHANGED << compressed, decompressed, downloads, decompressions >>
       ELSE \E dl_ok, kept, z_ok, written \in BOOLEAN :
              /\ downloads' = IF compressed THEN downloads ELSE downloads + 1
              /\ IF ~compressed /\ ~dl_ok
                   THEN /\ compressed' = kept
                        /\ UNCHANGED << decompressed, decompressions >>
                        /\ pc' = "failed"
                   ELSE /\ compressed' = TRUE
                        /\ decompressions' = decompressions + 1
                        /\ decompressed' = IF z_ok THEN TRUE ELSE written
                        /\ pc' = IF z_ok THEN "extract" ELSE "failed"
  /\ UNCHANGED << table, run, args, cat, puzzles, fixtures, total_puzzles,
                  files, marker, zstd >>

\* ------------------------------------------------------ main, pattern loop
\* the for statement moves to the next pattern, or leaves the loop
NextPattern ==
  /\ cat' = cat + 1
  /\ pc' = IF cat = NumPatterns THEN "marker" ELSE "extract"

\* ExtractStep with `break` in place of `continue` on an empty result
ExtractStep_BreakOnEmpty ==
  /\ pc = "extract"
  /\ LET pattern == Patterns[cat]
         got == extract_puzzles_for_pattern(table, PATTERN_THEMES[pattern],
                                            args.max_puzzles)
     IN  IF got.raised
           THEN /\ pc' = "failed"
                /\ log' = Append(log, StepLine(pattern))
                /\ UNCHANGED << cat, puzzles >>
           ELSE IF Len(got.puzzles) = 0
             THEN /\ log' = log \o << StepLine(pattern), WarnLine(pattern) >>
                  /\ puzzles' = << >>
                  /\ cat' = cat
                  /\ pc' = "marker"
             ELSE /\ log' = Append(log, StepLine(pattern))
                  /\ puzzles' = got.puzzles
                  /\ pc' = "convert"
                  /\ cat' = cat
  /\ UNCHANGED << table, run, args, fixtures, total_puzzles, files, marker,
                  zstd, compressed, decompressed, downloads, decompressions >>

\* ExtractStep with an extraction error swallowed: the pattern is passed over
ExtractStep_IgnoreRaise ==
  /\ pc = "extract"
  /\ LET pattern == Patterns[cat]
         got == extract_puzzles_for_pattern(table, PATTERN_THEMES[pattern],
                                            args.max_puzzles)
     IN  IF got.raised \/ Len(got.puzzles) = 0
           THEN /\ log' = log \o << StepLine(pattern), WarnLine(pattern) >>
                /\ puzzles' = << >>
                /\ NextPattern
           ELSE /\ log' = Append(log, StepLine(pattern))
                /\ puzzles' = got.puzzles
                /\ pc' = "convert"
                /\ cat' = cat
  /\ UNCHANGED << table, run, args, fixtures, total_puzzles, files, marker,
                  zstd, compressed, decompressed, downloads, decompressions >>

\* Step 3, lines 347-351: extract the current pattern's puzzles; an extraction
\* that raises ends the run; an empty result is warned about and skipped
ExtractStep ==
  /\ pc = "extract"
  /\ LET pattern == Patterns[cat]
         got == extract_puzzles_for_pattern(table, PATTERN_THEMES[pattern],
                                            args.max_puzzles)
     IN  IF got.raised
           THEN /\ pc' = "failed"
                /\ log' = Append(log, StepLine(pattern))
                /\ UNCHANGED << cat, puzzles >>
           ELSE IF Len(got.puzzles) = 0
             THEN /\ log' = log \o << StepLine(pattern), WarnLine(pattern) >>
                  /\ puzzles' = << >>
                  /\ NextPattern
             ELSE /\ log' = Append(log, StepLine(pattern))
                  /\ puzzles' = got.puzzles
                  /\ pc' = "convert"
                  /\ cat' = cat
  /\ UNCHANGED << table, run, args, fixtures, total_puzzles, files, marker,
                  zstd, compressed, decompressed, downloads, decompressions >>

\* ConvertAll with the first conversion error ending the inner loop
RECURSIVE ConvertAll_AbortOnError(_, _)
ConvertAll_AbortOnError(rows, pattern) ==
  IF rows = << >> THEN [ fixtures |-> << >>, printed |-> << >> ]
  ELSE LET one  == lichess_to_fixture(Head(rows), pattern)
           rest == ConvertAll_AbortOnError(Tail(rows), pattern)
       IN  IF one.raised
             THEN [ fixtures |-> << >>,
                    printed  |-> << SkipLine(pattern, Head(rows).PuzzleId) >> ]
             ELSE [ fixtures |-> << one.fixture >> \o rest.fixtures,
                    printed  |-> rest.printed ]

\* lines 354-360: the fixtures of the rows that convert and a skip line for
\* each row that does not, both in the order of `rows`
RECURSIVE ConvertAll(_, _)
ConvertAll(rows, pattern) ==
  IF rows = << >> THEN [ fixtures |-> << >>, printed |-> << >> ]
  ELSE LET one  == lichess_to_fixture(Head(rows), pattern)
           rest == ConvertAll(Tail(rows), pattern)
       IN  IF one.raised
             THEN [ fixtures |-> rest.fixtures,
                    printed  |-> << SkipLine(pattern, Head(rows).PuzzleId) >>
                                 \o rest.printed ]
             ELSE [ fixtures |-> << one.fixture >> \o rest.fixtures,
                    printed  |-> rest.printed ]

ConvertStep ==
  /\ pc = "convert"
  /\ LET done == ConvertAll(puzzles, Patterns[cat])
     IN  /\ fixtures' = done.fixtures
         /\ log' = log \o done.printed
  /\ pc' = "save"
  /\ UNCHANGED << table, run, args, cat, puzzles, total_puzzles, files, marker,
                  zstd, compressed, decompressed, downloads, decompressions >>

\* save_fixtures opening the file for append: the earlier cases stay
save_fixtures_Append(pattern, cases) ==
  [ run |-> run, cases |-> files[pattern].cases \o cases ]

\* the content save_fixtures writes; description, source and generatedAt are
\* fixed texts, `run` records which run wrote the file
save_fixtures(pattern, cases) == [ run |-> run, cases |-> cases ]

\* lines 362-365: write the pattern's file if any fixture was produced
SaveStep ==
  /\ pc = "save"
  /\ IF fixtures # << >>
       THEN /\ files' = [ files EXCEPT ![Patterns[cat]] =
                            save_fixtures(Patterns[cat], fixtures) ]
            /\ total_puzzles' = total_puzzles + Len(fixtures)
       ELSE UNCHANGED << files, total_puzzles >>
  /\ NextPattern
  /\ UNCHANGED << table, run, args, puzzles, fixtures, marker, zstd, compressed,
                  decompressed, downloads, decompressions, log >>

\* Step 4: the marker file is (re)written
create_setup_marker ==
  /\ pc = "marker"
  /\ marker' = run
  /\ log' = Append(log, StepLine("marker"))
  /\ pc' = "done"
  /\ UNCHANGED << table, run, args, cat, puzzles, fixtures, total_puzzles,
                  files, zstd, compressed, decompressed, downloads,
                  decompressions >>

Next ==
  \/ \E force \in BOOLEAN, max_puzzles \in 0..MaxLimit : StartRun(force, max_puzzles)
  \/ \E response \in Responses : Prompt(response)
  \/ CheckDependencies
  \/ download_puzzle_database
  \/ ExtractStep
  \/ ConvertStep
  \/ SaveStep
  \/ create_setup_marker

Spec == Init /\ [][Next]_vars

\* --------------------------------- the pattern loop on the extractor's rows
\* a run that has fetched the database and enters Step 3
InitLoop ==
  /\ table \in ExtractTables
  /\ args \in [ force : { FALSE }, max_puzzles : (0 - 1)..MaxLimit ]
  /\ run = 1
  /\ pc = "extract"
  /\ zstd = TRUE
  /\ InitLocals
  /\ files = [ p \in PatternSet |-> NoFile ]
  /\ marker = 0
  /\ compressed = TRUE
  /\ decompressed = TRUE
  /\ downloads = 1
  /\ decompressions = 1

NextLoop ==
  \/ ExtractStep
  \/ ConvertStep
  \/ SaveStep

SpecLoop == InitLoop /\ [][NextLoop]_vars

\* ------------------------------------------- the converter on its own
InitConvert ==
  /\ table = << >>
  /\ args = NoArgs
  /\ cat \in 1..NumPatterns
  /\ pc = "call_convert"
  /\ zstd = TRUE
  /\ run = 0
  /\ puzzles \in { << row >> : row \in ConvertRows }
  /\ fixtures = << >>
  /\ total_puzzles = 0
  /\ log = << >>
  /\ InitFiles

\* one call lichess_to_fixture(puzzle, pattern)
ApplyConvert ==
  /\ pc = "call_convert"
  /\ LET one == lichess_to_fixture(puzzles[1], Patterns[cat])
     IN  /\ fixtures' = IF one.raised THEN << >> ELSE << one.fixture >>
         /\ pc' = IF one.raised THEN "convert_raised" ELSE "convert_returned"
  /\ UNCHANGED << table, run, args, cat, puzzles, total_puzzles, files, marker,
                  zstd, compressed, decompressed, downloads, decompressions, log >>

SpecConvert == InitConvert /\ [][ApplyConvert]_vars

\* ------------------------------------------------------------- properties
\* What the properties speak of, stated from the table rather than computed
\* by the scan.

Tags(row) == Range(Split(row.Themes))

\* the positions of the rows of `table` that meet the quality bounds and
\* carry one of `themes`
Accepted(themes) ==
  { i \in 1..Len(table) :
      /\ table[i].Numeric
      /\ table[i].Popularity >= 50
      /\ table[i].Rating >= 800 /\ table[i].Rating <= 2200
      /\ table[i].NbPlays >= 50
      /\ Tags(table[i]) \cap Range(themes) # {} }

\* the k smallest members of a set of positions
FirstOf(S, k) == { i \in S : Cardinality({ j \in S : j < i }) < k }

\* the positions extracted for a pattern under the run's --max-puzzles
Extracted(pattern) == FirstOf(Accepted(PATTERN_THEMES[pattern]), args.max_puzzles)

\* a row int() rejects lies where the scan for the pattern comes by
ScanMeetsBadRow(pattern) ==
  \E i \in 1..Len(table) :
    /\ ~table[i].Numeric
    /\ Cardinality({ j \in Accepted(PATTERN_THEMES[pattern]) : j < i })
         < Max(args.max_puzzles, 1)

\* the row has a valid position and at least two moves, all of them playable
Convertible(row) ==
  /\ row.FEN \in { "w", "b" }
  /\ Len(Split(row.Moves)) >= 2
  /\ Range(Split(row.Moves)) \subseteq LegalMoves

FixtureIds(cases) == [ k \in 1..Len(cases) |-> cases[k].id ]

RowIds(rows) == [ k \in 1..Len(rows) |-> rows[k].PuzzleId ]

\* the step lines of the log, in order
StepsOf(lines) ==
  LET steps == SelectSeq(lines, LAMBDA e : e.kind = "step")
  IN  [ k \in 1..Len(steps) |-> steps[k].pattern ]

FullOrder == << "deps", "fetch" >> \o Patterns \o << "marker" >>

IsPrefix(s, t) == Len(s) <= Len(t) /\ s = SubSeq(t, 1, Len(s))

Written(pattern) == run > 0 /\ files[pattern].run = run

\* C1: every row extract_puzzles_for_pattern returns is a row of the table
\* with popularity >= 50, 800 <= rating <= 2200, play count >= 50 and a
\* theme in common with the pattern's theme list.
C1_ReturnedRowsMeetBounds ==
  pc = "convert" =>
    \A k \in 1..Len(puzzles) :
      /\ puzzles[k].Popularity >= 50
      /\ puzzles[k].Rating >= 800 /\ puzzles[k].Rating <= 2200
      /\ puzzles[k].NbPlays >= 50
      /\ Tags(puzzles[k]) \cap Range(PATTERN_THEMES[Patterns[cat]]) # {}
      /\ puzzles[k].PuzzleId \in 1..Len(table)
      /\ puzzles[k] = table[puzzles[k].PuzzleId]

\* a row at the popularity bound was returned while the table also holds rows
\* just outside the popularity and the play-count bounds
C1_Witness ==
  /\ pc = "convert"
  /\ \E k \in 1..Len(puzzles) : puzzles[k].Popularity = 50
  /\ \E i \in 1..Len(table) : table[i].Numeric /\ table[i].NbPlays = 49
  /\ \E i \in 1..Len(table) : table[i].Numeric /\ table[i].Popularity = 49

\* C2: for a limit >= 0 the extractor returns at most `limit` rows, in order
\* of non-increasing popularity, and a fixture file written by the run holds
\* at most `limit` cases.
C2_AtMostLimitSorted ==
  args.max_puzzles >= 0 =>
    /\ pc = "convert" =>
         /\ Len(puzzles) <= args.max_puzzles
         /\ \A k \in 1..(Len(puzzles) - 1) :
              puzzles[k].Popularity >= puzzles[k + 1].Popularity
    /\ \A p \in PatternSet :
         Written(p) => Len(files[p].cases) <= args.max_puzzles

\* more rows match than the limit allows, and the file written holds exactly
\* `limit` cases in an order that differs from the file order
C2_Witness ==
  \E p \in PatternSet :
    /\ Written(p)
    /\ args.max_puzzles = 2
    /\ Len(files[p].cases) = 2
    /\ Cardinality(Accepted(PATTERN_THEMES[p])) > 2
    /\ files[p].cases[1].id > files[p].cases[2].id

\* C10: with limit >= 1 the returned rows are exactly the first
\* min(limit, number of accepted rows) accepted rows in file order, and the
\* result is empty only if no row is accepted.
C10_FirstAcceptedInFileOrder ==
  args.max_puzzles >= 1 =>
    /\ pc = "convert" =>
         /\ Range(RowIds(puzzles)) = Extracted(Patterns[cat])
         /\ Len(puzzles) =
              Min(args.max_puzzles,
                  Cardinality(Accepted(PATTERN_THEMES[Patterns[cat]])))
    /\ \A e \in Range(log) :
         e.kind = "warning" => Accepted(PATTERN_THEMES[e.pattern]) = {}

\* an accepted row behind the limit-th accepted row is more popular than
\* every returned row, and is not returned
C10_Witness ==
  /\ pc = "convert"
  /\ args.max_puzzles >= 1
  /\ \E i \in Accepted(PATTERN_THEMES[Patterns[cat]]) :
       /\ i \notin Range(RowIds(puzzles))
       /\ \A k \in 1..Len(puzzles) : table[i].Popularity > puzzles[k].Popularity

\* C3: a fixture's move sequence has one entry per raw move but the first,
\* entry i (0-based) is raw move i+1 and is tagged player iff i is even.
C3_MoveSequenceParity ==
  pc = "convert_returned" =>
    LET raw == Split(puzzles[1].Moves)
        seq == fixtures[1].moves
    IN  /\ Len(seq) = Len(raw) - 1
        /\ \A i \in 0..(Len(seq) - 1) :
             /\ seq[i + 1].uci = raw[i + 2]
             /\ seq[i + 1].player <=> (i % 2 = 0)

\* the scenario of the three moves e2e4 e7e5 g1f3
C3_Witness ==
  /\ pc = "convert_returned"
  /\ Split(puzzles[1].Moves) = << "e2e4", "e7e5", "g1f3" >>
  /\ Len(fixtures[1].moves) = 2
  /\ fixtures[1].moves[1].player
  /\ ~fixtures[1].moves[2].player
  /\ fixtures[1].bestMove.uci = "e7e5"

\* C4: a record whose conversion fails is skipped alone: the fixtures of the
\* extracted records that convert are written to the pattern's file in
\* extraction order, no run ends on a conversion failure, and a completed run
\* has gone through every pattern and written the marker.
C4_SkipOnlyFailedRecord ==
  LET good == SelectSeq(puzzles, Convertible)
  IN  /\ pc = "save" => FixtureIds(fixtures) = RowIds(good)
      /\ (pc \in { "extract", "marker", "done" } /\ cat > 1 /\ good # << >>) =>
           /\ Written(Patterns[cat - 1])
           /\ FixtureIds(files[Patterns[cat - 1]].cases) = RowIds(good)
      /\ (pc = "failed" /\ log # << >>) => log[Len(log)].kind = "step"
      /\ pc = "done" =>
           /\ marker = run
           /\ \A p \in PatternSet : StepLine(p) \in Range(log)

\* a completed run that skipped a record of a pattern and still wrote that
\* pattern's file
C4_Witness ==
  /\ pc = "done"
  /\ \E e \in Range(log) : e.kind = "skip" /\ Written(e.pattern)

\* C5 as stated, for a run with --max-puzzles >= 1: after a completed run, a
\* pattern without any matching row has a warning and no file written, and
\* every other pattern that has a matching, convertible row in the table has
\* its file written.
C5_AnyConvertibleMatchWritten ==
  (pc = "done" /\ args.max_puzzles >= 1) =>
    \A z \in PatternSet :
      Accepted(PATTERN_THEMES[z]) = {} =>
        /\ ~Written(z)
        /\ WarnLine(z) \in Range(log)
        /\ \A p \in PatternSet \ { z } :
             (\E i \in Accepted(PATTERN_THEMES[p]) : Convertible(table[i]))
               => Written(p)

\* C5, amended: after a completed run, a pattern without any matching row
\* has a warning and no file written, and every other pattern for which one
\* of the extracted rows (the first max-puzzles matching rows in file order)
\* converts has its file written.
C5_ExtractedConvertibleWritten ==
  pc = "done" =>
    \A z \in PatternSet :
      Accepted(PATTERN_THEMES[z]) = {} =>
        /\ ~Written(z)
        /\ WarnLine(z) \in Range(log)
        /\ \A p \in PatternSet \ { z } :
             (\E i \in Extracted(p) : Convertible(table[i])) => Written(p)

\* a completed run with a pattern that matched nothing before, in loop order,
\* a pattern whose file was written
C5_Witness ==
  /\ pc = "done"
  /\ Accepted(PATTERN_THEMES["pin"]) = {}
  /\ WarnLine("pin") \in Range(log)
  /\ Written("fork")

\* C8 as stated, for a run with --max-puzzles >= 1: after a completed run no
\* fixture file holds content of an earlier run.
C8_NoStaleFile ==
  (pc = "done" /\ args.max_puzzles >= 1) =>
    \A p \in PatternSet : files[p] = NoFile \/ Written(p)

\* C8, amended: after a completed run, a pattern for which one of the
\* extracted rows converted has a file holding exactly this run's fixtures;
\* any other pattern's file, if there is one, is as an earlier run left it.
C8_OverwriteWhenWritten ==
  pc = "done" =>
    \A p \in PatternSet :
      LET good == { i \in Extracted(p) : Convertible(table[i]) }
      IN  IF good # {}
            THEN /\ Written(p)
                 /\ Range(FixtureIds(files[p].cases)) = good
                 /\ Len(files[p].cases) = Cardinality(good)
            ELSE files[p].run < run

\* the second run completed, rewrote one pattern's file and left another
\* pattern's file of the first run in place
C8_Witness ==
  /\ pc = "done"
  /\ run = 2
  /\ \E p, q \in PatternSet :
       /\ Written(p)
       /\ files[q].run = 1
       /\ files[q].cases # << >>

\* C9: the steps of a run happen in the order dependency check, fetch, the
\* patterns in loop order, marker write; the marker is written only by a run
\* that went through every pattern without an extraction error, and a run
\* that ended on a fatal error has not written it.
C9_StepOrder ==
  /\ IsPrefix(StepsOf(log), FullOrder)
  /\ (run > 0 /\ marker = run) =>
       /\ pc = "done"
       /\ StepsOf(log) = FullOrder
       /\ \A p \in PatternSet : ~ScanMeetsBadRow(p)
  /\ pc = "done" => marker = run
  /\ pc = "failed" => marker # run /\ StepLine("marker") \notin Range(log)

\* a run that ended on an error in the extraction of a later pattern, after
\* an earlier pattern's file was written
C9_Witness ==
  /\ pc = "failed"
  /\ Len(StepsOf(log)) > 3
  /\ \E p \in PatternSet : Written(p)
  /\ marker # run

\* C6: a call of the fetcher that finds the decompressed file returns
\* without a download or a decompression and leaves the cached files as they
\* are; a call that returns leaves the decompressed file in place, and
\* nothing removes it.
C6_FetchShortCircuit ==
  /\ [][(pc = "fetch" /\ decompressed) =>
          /\ pc' = "extract"
          /\ downloads' = downloads
          /\ decompressions' = decompressions
          /\ compressed' = compressed
          /\ decompressed' = decompressed]_vars
  /\ [][(pc = "fetch" /\ pc' = "extract") => decompressed']_vars
  /\ [][decompressed => decompressed']_vars

\* the second run's fetch returned after the first run had completed, with
\* the single download and decompression of the first run
C6_Witness ==
  /\ run = 2
  /\ marker = 1
  /\ pc = "extract"
  /\ cat = 1
  /\ downloads = 1
  /\ decompressions = 1

\* C7: in a run started with --force no prompt is shown and no marker is in
\* place while the setup steps run; it is written again by the final step.
C7_ForceDeletesMarker ==
  (run > 0 /\ args.force) =>
    /\ PromptLine \notin Range(log)
    /\ pc \in { "deps", "fetch", "extract", "convert", "save", "marker" }
         => marker = 0
    /\ pc = "done" => marker = run

====
